---- MODULE Spec2Model ----
(***************************************************************************)
(* The doodle interview scheduler (src/doodle/__init__.py): a person       *)
(* table, a person_time table, the four store functions create_person,     *)
(* get_times, add_times and find_interview_times, and the Flask handlers   *)
(* that call them.  Each handler is one action; the server answers one     *)
(* request at a time.                                                      *)
(***************************************************************************)
EXTENDS Integers, Sequences, FiniteSets, Bags, TLC

VARIABLES
    person,        \* table person: sequence of rows [id, name, role], in rowid order
    person_time,   \* table person_time: bag of rows [person_id, time]
    response,      \* the request being answered and its outcome, or Idle
    returned_ids   \* history: the ids create_person has returned so far

vars == <<person, person_time, response, returned_ids>>

-----------------------------------------------------------------------------
(* Bounds of the model.                                                    *)

MaxPeople == 2     \* rows the person table may hold
MaxTimes == 2      \* 'time' fields in one PUT form
MaxIds == 2        \* 'id' arguments in one /interview query

-----------------------------------------------------------------------------
(* Role (IntEnum) and Python's None / SQL NULL.                            *)

INTERVIEWER == 1
CANDIDATE == 2
Role == {INTERVIEWER, CANDIDATE}

None == [none |-> TRUE]
NULL == None

Names == {"ann"}

Range(f) == {f[n] : n \in DOMAIN f}

-----------------------------------------------------------------------------
(* Instant strings and MayaDT.                                             *)
(*                                                                         *)
(* A well-formed ISO-8601 date-time string on one fixed date is the record *)
(* of its fields; offset is the text of its UTC offset, "" when the string *)
(* carries none.  A MayaDT holds nothing but an epoch (seconds since the   *)
(* start of that date, UTC, and the microseconds within the second).       *)

IsoString(h, m, s, us, off) ==
    [hour |-> h, minute |-> m, second |-> s, microsecond |-> us, offset |-> off]

\* The strings a client submits.
TimeStrings ==
    { IsoString(10, 0, 0, 0, "Z"),          \* on the hour, UTC
      IsoString(12, 0, 0, 0, "+01:00"),     \* on the hour, = 11:00Z
      IsoString(10, 0, 0, 0, ""),           \* on the hour, no offset
      IsoString(10, 30, 0, 0, "Z"),         \* minute 30
      IsoString(10, 30, 0, 0, "+00:30"),    \* minute 30, = 10:00Z
      IsoString(10, 0, 1, 0, "Z"),          \* second 1
      IsoString(10, 0, 0, 1, "Z") }         \* microsecond 1

OffsetMinutes(off) ==
    CASE off = "Z" -> 0
      [] off = "+00:30" -> 30
      [] off = "+01:00" -> 60
      [] off = "" -> 0          \* a naive date-time is taken to be UTC

\* MayaDT.from_iso8601: the epoch of the instant the string denotes.
from_iso8601(string) ==
    [sec |-> ((string.hour * 60 + string.minute - OffsetMinutes(string.offset)) * 60)
                + string.second,
     us |-> string.microsecond]

\* MayaDT.minute, .second, .microsecond: fields of the UTC date-time.
minute(time) == (time.sec \div 60) % 60
second(time) == time.sec % 60
microsecond(time) == time.us

\* MayaDT.timezone: the name of the UTC tzinfo, whatever string was parsed
\* (a str, never None).
timezone(time) == [str |-> "UTC"]

\* MayaDT.iso8601: the UTC date-time followed by 'Z'.
iso8601(time) ==
    IsoString(time.sec \div 3600, minute(time), second(time), microsecond(time), "Z")

\* parse_time: ok with the time, or ValueError.  parse_time(None) never
\* yields a time: the ISO parser raises on it (raised = "Error"; the
\* exception's class depends on the parser and no caller catches it apart
\* from the form's getlist, which is never handed None).
parse_time_off_hour(time) ==
    \E t \in {minute(time), second(time), microsecond(time)} : t # 0

parse_time(string) ==
    IF string = None
    THEN [ok |-> FALSE, raised |-> "Error", time |-> None]
    ELSE LET time == from_iso8601(string)
         IN  IF parse_time_off_hour(time)
             THEN [ok |-> FALSE, raised |-> "ValueError", time |-> None]
             ELSE IF timezone(time) = None
             THEN [ok |-> FALSE, raised |-> "ValueError", time |-> None]
             ELSE [ok |-> TRUE, raised |-> "None", time |-> time]

-----------------------------------------------------------------------------
(* The tables and the SQL the functions run on them.                       *)

\* Person(id_, name, role, times); times is kept as a bag (the list's order
\* is the unspecified row order of the query).
Person(id_, name, role, times) ==
    [id_ |-> id_, name |-> name, role |-> role, times |-> times]

NoPerson == Person(0, "", 0, EmptyBag)

Max(S) == CHOOSE m \in S : \A n \in S : n <= m

\* The id column of person is the table's integer primary key, so a row's id
\* is the rowid the INSERT allocated.
person_row(rowid, name, role) == [id |-> rowid, name |-> name, role |-> role]

\* (person_id, time) is unique in person_time.
person_time_key(row) == <<row.person_id, row.time>>

\* cursor.lastrowid after INSERT INTO person: one more than the largest
\* rowid of the table.
lastrowid_stale(p_tbl) ==
    IF p_tbl = <<>> THEN 1 ELSE Max({p_tbl[n].id : n \in DOMAIN p_tbl})

lastrowid(p_tbl) ==
    IF p_tbl = <<>> THEN 1 ELSE Max({p_tbl[n].id : n \in DOMAIN p_tbl}) + 1

\* INSERT OR REPLACE INTO person_time (person_id, time): the rows with the
\* new row's key are deleted, then the row is inserted.
insert_plain(t_tbl, row) == t_tbl (+) SetToBag({row})

insert_or_replace(t_tbl, row) ==
    LET kept == {r \in DOMAIN t_tbl : person_time_key(r) # person_time_key(row)}
    IN  [r \in kept |-> t_tbl[r]] (+) SetToBag({row})

\* executemany over the parameter list, in order.
RECURSIVE executemany(_, _)
executemany(t_tbl, params) ==
    IF params = <<>> THEN t_tbl
    ELSE executemany(insert_or_replace(t_tbl, Head(params)), Tail(params))

\* FROM person p LEFT JOIN person_time t ON p.id = t.person_id: the bag of
\* joined rows; a person without person_time rows yields one row with a NULL
\* time.
RECURSIVE left_join(_, _)
left_join(p_tbl, t_tbl) ==
    IF p_tbl = <<>> THEN EmptyBag
    ELSE LET p == Head(p_tbl)
             matches == {t \in DOMAIN t_tbl : t.person_id = p.id}
             joined(time) ==
                 [id |-> p.id, name |-> p.name, role |-> p.role, time |-> time]
             rows == IF matches = {}
                     THEN SetToBag({joined(NULL)})
                     ELSE BagOfAll(LAMBDA t : joined(t.time),
                                   [t \in matches |-> t_tbl[t]])
         IN  rows (+) left_join(Tail(p_tbl), t_tbl)

\* [parse_time(r[2]) for r in rows if r[2]]: the times of the rows whose time
\* is not NULL; raised is the first failure of parse_time, if any.
parse_rows(rows) ==
    LET some == [r \in {x \in DOMAIN rows : x.time # NULL} |-> rows[r]]
        parsed == BagOfAll(LAMBDA r : parse_time(r.time), some)
        bad == {t \in DOMAIN parsed : ~t.ok}
    IN  IF bad # {}
        THEN [raised |-> (CHOOSE t \in bad : TRUE).raised, times |-> EmptyBag]
        ELSE [raised |-> "None", times |-> BagOfAll(LAMBDA t : t.time, parsed)]

-----------------------------------------------------------------------------
(* The store functions.  Each returns a record: raised is the exception    *)
(* that left the function ("None" when it returned), ret what it returned. *)

\* create_person: the id is the INSERT's lastrowid; the Person has no times.
create_person(name, role) ==
    LET id_ == lastrowid(person)
    IN  [person |-> Append(person, person_row(id_, name, role)),
         ret |-> Person(id_, name, role, EmptyBag)]

\* get_times' SELECT: the joined rows WHERE p.id = :id AND p.role = :role.
get_times_rows_any_role(id_, role) ==
    LET joined == left_join(person, person_time)
    IN  [r \in {x \in DOMAIN joined : x.id = id_} |-> joined[r]]

get_times_rows(id_, role) ==
    LET joined == left_join(person, person_time)
    IN  [r \in {x \in DOMAIN joined : x.id = id_ /\ x.role = role} |-> joined[r]]

get_times(id_, role) ==
    LET rows == get_times_rows(id_, role)
    IN  IF rows # EmptyBag
        THEN LET first == CHOOSE r \in DOMAIN rows : TRUE
                 parsed == parse_rows(rows)
             IN  IF parsed.raised # "None"
                 THEN [raised |-> parsed.raised, ret |-> NoPerson]
                 ELSE [raised |-> "None",
                       ret |-> Person(id_, first.name, first.role, parsed.times)]
        ELSE [raised |-> "KeyError", ret |-> NoPerson]

\* add_times' SELECT COUNT(*) FROM person WHERE p.id = :id AND p.role = :role.
person_count_any_role(id_, role) ==
    Cardinality({n \in DOMAIN person : person[n].id = id_})

person_count(id_, role) ==
    Cardinality({n \in DOMAIN person : person[n].id = id_ /\ person[n].role = role})

\* add_times, inside one transaction: person_time is the table as the
\* transaction leaves it (COMMIT on return, ROLLBACK on an exception).
add_times(id_, role, times) ==
    LET params == [n \in DOMAIN times |->
                      [person_id |-> id_, time |-> iso8601(times[n])]]
        count == person_count(id_, role)
        upserted == executemany(person_time, params)
        joined == left_join(person, upserted)
        rows == [r \in {x \in DOMAIN joined : x.id = id_} |-> joined[r]]
        parsed == parse_rows(rows)
        rollback(exc) == [raised |-> exc, person_time |-> person_time, ret |-> NoPerson]
    IN  IF count = 0 THEN rollback("KeyError")
        ELSE IF rows = EmptyBag THEN rollback("Error")    \* rows[0]: IndexError
        ELSE IF parsed.raised # "None" THEN rollback(parsed.raised)
        ELSE LET first == CHOOSE r \in DOMAIN rows : TRUE
             IN  [raised |-> "None",
                  person_time |-> upserted,
                  ret |-> Person(id_, first.name, first.role, parsed.times)]

\* find_interview_times' SELECT: the joined rows WHERE p.id IN (ids), grouped
\* by t.time (the NULL times form one group); a group is selected when
\* COUNT(p.id), the number of its rows, equals :count.
interview_query(ids, count) ==
    LET joined == left_join(person, person_time)
        rows == [r \in {x \in DOMAIN joined : x.id \in Range(ids)} |-> joined[r]]
        groups == {r.time : r \in DOMAIN rows}
        group(g) == [r \in {x \in DOMAIN rows : x.time = g} |-> rows[r]]
    IN  {g \in groups : BagCardinality(group(g)) = count}

\* find_interview_times: id_params has one entry per element of ids, so
\* :count is the length of the list; every selected row r is the 1-tuple
\* (time,), which is truthy, so parse_time runs on each, NULL included.
find_interview_times_matched(ids) ==
    LET present == {i \in Range(ids) : \E n \in DOMAIN person : person[n].id = i}
        selected == interview_query(ids, Cardinality(present))
        kept == {g \in selected : <<g>> # <<>>}
        bad == {g \in kept : ~parse_time(g).ok}
    IN  IF bad # {}
        THEN [raised |-> parse_time(CHOOSE g \in bad : TRUE).raised, ret |-> {}]
        ELSE [raised |-> "None", ret |-> {parse_time(g).time : g \in kept}]

find_interview_times(ids) ==
    LET id_params == [n \in DOMAIN ids |-> ids[n]]
        selected == interview_query(ids, Len(id_params))
        kept == {g \in selected : <<g>> # <<>>}
        bad == {g \in kept : ~parse_time(g).ok}
    IN  IF bad # {}
        THEN [raised |-> parse_time(CHOOSE g \in bad : TRUE).raised, ret |-> {}]
        ELSE [raised |-> "None", ret |-> {parse_time(g).time : g \in kept}]

-----------------------------------------------------------------------------
(* The Flask handlers.                                                     *)

\* request.form.getlist('time', parse_time): the converted items, in order;
\* an item whose conversion raises ValueError is left out of the list, so
\* no ValueError leaves getlist.  parsed keeps each conversion's outcome.
getlist(form) ==
    LET parsed == [n \in DOMAIN form |-> parse_time(form[n])]
        good == SelectSeq(parsed, LAMBDA p : p.ok)
    IN  [raised |-> "None",
         parsed |-> parsed,
         values |-> [n \in DOMAIN good |-> good[n].time]]

\* jsonify's times=[t.iso8601() for t in person.times].
jsonify_times(times) == BagOfAll(iso8601, times)

Idle ==
    [method |-> "idle", role |-> 0, id_ |-> 0, name |-> "", form |-> <<>>,
     ids |-> <<>>, parsed |-> <<>>, store |-> FALSE, raised |-> "None",
     status |-> 0, person |-> NoPerson, times |-> EmptyBag]

abort(req, code) == [req EXCEPT !.status = code]

IdDomain == 1..(MaxPeople + 1)

\* The 'time' fields of a form: up to MaxTimes distinct strings, listed in one
\* fixed order per set of strings.
ListOf(S) == CHOOSE f \in [1..Cardinality(S) -> S] : Range(f) = S

Forms == {ListOf(S) : S \in {T \in SUBSET TimeStrings : Cardinality(T) <= MaxTimes}}

IdLists == UNION {[1..n -> IdDomain] : n \in 0..MaxIds}

Init ==
    /\ person = <<>>
    /\ person_time = EmptyBag
    /\ response = Idle
    /\ returned_ids = {}

\* person(role), POST.
PersonPost(role, name) ==
    /\ Len(person) < MaxPeople
    /\ LET made == create_person(name, role)
           req == [Idle EXCEPT !.method = "POST", !.role = role, !.name = name,
                               !.store = TRUE]
       IN  /\ person' = made.person
           /\ returned_ids' = returned_ids \cup {made.ret.id_}
           /\ response' = [req EXCEPT !.status = 200,
                                      !.person = made.ret,
                                      !.times = jsonify_times(made.ret.times)]
    /\ UNCHANGED person_time

\* person(role, id_), PUT.
PersonPut(role, id_, form) ==
    /\ LET got == getlist(form)
           times == got.values
           req == [Idle EXCEPT !.method = "PUT", !.role = role, !.id_ = id_,
                               !.form = form, !.parsed = got.parsed]
           added == add_times(id_, role, times)
           called == [req EXCEPT !.store = TRUE, !.raised = added.raised]
       IN  IF got.raised = "ValueError"
           THEN response' = abort(req, 400) /\ UNCHANGED person_time
           ELSE IF times = <<>>
           THEN response' = abort(req, 400) /\ UNCHANGED person_time
           ELSE /\ person_time' = added.person_time
                /\ response' =
                       IF added.raised = "KeyError" THEN abort(called, 404)
                       ELSE IF added.raised # "None" THEN abort(called, 500)
                       ELSE [called EXCEPT !.status = 200,
                                           !.person = added.ret,
                                           !.times = jsonify_times(added.ret.times)]
    /\ UNCHANGED <<person, returned_ids>>

\* person(role, id_), GET.
PersonGet(role, id_) ==
    /\ LET got == get_times(id_, role)
           req == [Idle EXCEPT !.method = "GET", !.role = role, !.id_ = id_,
                               !.store = TRUE, !.raised = got.raised]
       IN  response' =
               IF got.raised = "KeyError" THEN abort(req, 404)
               ELSE IF got.raised # "None" THEN abort(req, 500)
               ELSE IF role # got.ret.role THEN abort(req, 404)
               ELSE [req EXCEPT !.status = 200,
                                !.person = got.ret,
                                !.times = jsonify_times(got.ret.times)]
    /\ UNCHANGED <<person, person_time, returned_ids>>

\* interview_times, GET /interview.
InterviewTimes(ids) ==
    /\ LET req == [Idle EXCEPT !.method = "INTERVIEW", !.ids = ids]
           found == find_interview_times(ids)
           called == [req EXCEPT !.store = TRUE, !.raised = found.raised]
       IN  response' =
               IF ids = <<>> THEN abort(req, 400)
               ELSE IF found.raised # "None" THEN abort(called, 500)
               ELSE [called EXCEPT !.status = 200,
                                   !.times = BagOfAll(iso8601, SetToBag(found.ret))]
    /\ UNCHANGED <<person, person_time, returned_ids>>

\* The response is sent and the server takes the next request.
NextRequest ==
    /\ response # Idle
    /\ response' = Idle
    /\ UNCHANGED <<person, person_time, returned_ids>>

\* The routes: a handler runs once the server has sent its last response.
PostRoute ==
    response = Idle /\ \E role \in Role, name \in Names : PersonPost(role, name)

PutRoute ==
    response = Idle /\ \E role \in Role, id_ \in IdDomain, form \in Forms :
                           PersonPut(role, id_, form)

GetRoute ==
    response = Idle /\ \E role \in Role, id_ \in IdDomain : PersonGet(role, id_)

InterviewRoute ==
    response = Idle /\ \E ids \in IdLists : InterviewTimes(ids)

Next ==
    \/ PostRoute
    \/ PutRoute
    \/ GetRoute
    \/ InterviewRoute
    \/ NextRequest

Spec == Init /\ [][Next]_vars

-----------------------------------------------------------------------------
(* What the tables hold, read off the rows themselves.                     *)

Exists(id_) == \E n \in DOMAIN person : person[n].id = id_

ExistsAs(id_, role) ==
    \E n \in DOMAIN person : person[n].id = id_ /\ person[n].role = role

\* The instants person_time holds for id_.
StoredInstants(id_) ==
    {from_iso8601(r.time) : r \in {x \in DOMAIN person_time : x.person_id = id_}}

\* The instants every id of the set I has a row for.
CommonInstants(I) ==
    {t \in UNION {StoredInstants(i) : i \in I} : \A i \in I : t \in StoredInstants(i)}

\* The instants of the form being answered that the handler's getlist kept.
AcceptedInstants(resp) ==
    {resp.parsed[n].time : n \in {k \in DOMAIN resp.parsed : resp.parsed[k].ok}}

\* A response body's times for a set of instants, each listed once.
Listed(instants) == SetToBag({iso8601(t) : t \in instants})

IsInterview == response.method = "INTERVIEW" /\ response.ids # <<>>

-----------------------------------------------------------------------------
(* The claims.                                                             *)

\* C1: for every non-empty id list, find_interview_times returns exactly the
\* instants at which every supplied id has a stored availability row.
C1_ExactlyTheCommonInstants ==
    IsInterview =>
        /\ response.raised = "None"
        /\ response.status = 200
        /\ response.times = Listed(CommonInstants(Range(response.ids)))

\* C2: after add_times(id, role, S) succeeds, get_times(id, role) returns
\* exactly S united with the instants stored before, each once, and add_times
\* returns the same; submitting instants that are all stored already leaves
\* person_time unchanged.
C2_UpsertIsUnion ==
    /\ [][(response'.method = "PUT" /\ response'.status = 200) =>
          \A id_ \in {response'.id_}, S \in {AcceptedInstants(response')} :
             /\ S # {}
             /\ ExistsAs(id_, response'.role)
             /\ response'.person.times = SetToBag(StoredInstants(id_) \cup S)
             /\ (S \subseteq StoredInstants(id_) => person_time' = person_time)
         ]_vars
    /\ []((response.method = "PUT" /\ response.status = 200) =>
             get_times(response.id_, response.role)
                 = [raised |-> "None", ret |-> response.person])

C2_Witness ==
    /\ response.method = "PUT"
    /\ response.status = 200
    /\ Cardinality(AcceptedInstants(response)) = 1
    /\ Cardinality(BagToSet(response.person.times)) = 2

\* C3: add_times with an (id, role) matching no stored person raises KeyError
\* (answered 404) and leaves person and person_time as they were.
C3_UnknownPersonNoMutation ==
    [][(/\ response'.method = "PUT"
        /\ response'.store
        /\ ~ExistsAs(response'.id_, response'.role)) =>
          /\ response'.raised = "KeyError"
          /\ response'.status = 404
          /\ person' = person
          /\ person_time' = person_time
      ]_vars

C3_Witness ==
    /\ response.method = "PUT"
    /\ response.raised = "KeyError"
    /\ Exists(response.id_)
    /\ ~ExistsAs(response.id_, response.role)

\* C4: duplicate ids in a match query are deduplicated: the list gets the
\* result that the list of its distinct ids gets (whenever that query
\* returns one).
C4_DuplicateIdsDeduplicated ==
    IsInterview =>
        LET distinct == find_interview_times(ListOf(Range(response.ids)))
        IN  distinct.raised = "None" =>
                /\ response.raised = "None"
                /\ response.times = Listed(distinct.ret)

\* C5: an id list holding an id of no stored person gets the empty result,
\* with no error.
C5_UnknownIdGivesEmpty ==
    (IsInterview /\ \E i \in Range(response.ids) : ~Exists(i)) =>
        /\ response.raised = "None"
        /\ response.status = 200
        /\ response.times = EmptyBag

C5_Witness ==
    /\ IsInterview
    /\ \E i \in Range(response.ids) : ~Exists(i)
    /\ \E i \in Range(response.ids) : StoredInstants(i) # {}

\* C6: create_person returns an id no earlier create_person returned, the new
\* person has no availability (get_times on it returns no instants), and each
\* call adds a person, also for a (name, role) that is stored already.
C6_FreshIdEmptyAvailability ==
    /\ [][response'.method = "POST" =>
             /\ response'.person.id_ \notin returned_ids
             /\ Len(person') = Len(person) + 1
         ]_vars
    /\ [](response.method = "POST" =>
             /\ response.person.times = EmptyBag
             /\ get_times(response.person.id_, response.role)
                    = [raised |-> "None",
                       ret |-> Person(response.person.id_, response.name,
                                      response.role, EmptyBag)])

C6_Witness ==
    /\ response.method = "POST"
    /\ \E n \in DOMAIN person :
           /\ person[n].name = response.name
           /\ person[n].role = response.role
           /\ person[n].id # response.person.id_

\* C7: get_times(id, role) succeeds only for a person stored with that id and
\* that role; an id stored under the other role gets the KeyError (404) of an
\* id that is not stored, and nothing of that person is returned.
C7_RoleMismatchIsNotFound ==
    response.method = "GET" =>
        IF ExistsAs(response.id_, response.role)
        THEN /\ response.raised = "None"
             /\ response.status = 200
             /\ response.person.id_ = response.id_
             /\ response.person.role = response.role
        ELSE /\ response.raised = "KeyError"
             /\ response.status = 404
             /\ response.person = NoPerson
             /\ response.times = EmptyBag

C7_Witness ==
    /\ response.method = "GET"
    /\ response.status = 404
    /\ Exists(response.id_)
    /\ StoredInstants(response.id_) # {}

\* C8: a PUT whose form is empty or holds an instant string that fails
\* validation is answered 400 without the store being opened, and 404 is
\* answered only when every instant of the form validated.
C8_ValidationBeforeStore ==
    response.method = "PUT" =>
        LET invalid == \/ response.form = <<>>
                       \/ \E n \in DOMAIN response.parsed : ~response.parsed[n].ok
        IN  /\ invalid => (response.status = 400 /\ ~response.store)
            /\ response.status = 404 => ~invalid

\* C9: parse_time rejects every string without a UTC offset and every string
\* whose minute, second or fractional second is not zero, so every stored
\* instant is on the hour and carries an offset.
C9_OffHourOrNaiveRejected ==
    /\ response.method = "PUT" =>
           \A n \in DOMAIN response.form :
               LET string == response.form[n]
               IN  (\/ string.offset = ""
                    \/ string.minute # 0
                    \/ string.second # 0
                    \/ string.microsecond # 0) => ~response.parsed[n].ok
    /\ \A r \in DOMAIN person_time :
           /\ r.time.minute = 0
           /\ r.time.second = 0
           /\ r.time.microsecond = 0
           /\ r.time.offset # ""

\* C10: a query over existing people of whom at least one has no stored
\* availability completes without error and returns the empty list.
C10_NoAvailabilityGivesEmpty ==
    (/\ IsInterview
     /\ \A i \in Range(response.ids) : Exists(i)
     /\ \E i \in Range(response.ids) : StoredInstants(i) = {}) =>
        /\ response.raised = "None"
        /\ response.status = 200
        /\ response.times = EmptyBag

====
